---- MODULE Spec2Model ----
\* Physics world lifecycle and entity/body synchronisation of the 2D prototype
\* (src/src/App.tsx): Physics2D, Debug, useRigidBody, RenderEnemy and App,
\* driven by React commits and by the host frame loop.
\*
\* Numbers that the code holds as floats are kept in hundredths (Unit = 1.0),
\* so that the 0.01 scale factor of the velocity direction stays an integer.
EXTENDS Integers, Sequences, FiniteSets, TLC

\* ---------------------------------------------------------------- bounds
MaxCount == 1            \* largest collider count the controls can be set to
MaxInitEffectRuns == 2   \* how often the host may run Physics2D's init effect
MaxHandles == 2          \* bodies the engine may issue before mounting stops
MaxFrames == 2           \* frame intervals before the frame loop stops
MaxVertices == 2         \* vertices in a debug buffer of the reshape harness
MaxFrames3D == 4         \* frame intervals of the 3D variant's scheduler harness

\* ------------------------------------------------------------- constants
NULL == -1               \* null / undefined of a ref, a handle or a world
Unit == 100              \* 1.0 in hundredths
ThrottleMs == 250        \* the throttle interval of the 3D variant's scheduler

\* UPDATE_PRIORITY of ./constant; useFrame without a priority has priority 0
\* and the frame loop runs its subscribers by ascending priority.
UPDATE_PRIORITY_PHYSICS == 1
UPDATE_PRIORITY_RENDER == 2
UPDATE_PRIORITY_PHYSICS_DEBUGGER == 3

\* The Count control in steps of its step (100), the Spawn Scale control as it is.
DefaultCount == 1
DefaultScale == 10
Counts == 0..MaxCount
Scales == {0, DefaultScale}
\* Physics2D's props: gravity in hundredths, timeStep t standing for 1/t s.
DefaultGravity == <<0, 0>>
DefaultTimeStep == 60
Gravities == {DefaultGravity, <<0, 0 - 980>>}
TimeSteps == {DefaultTimeStep, DefaultTimeStep \div 2}
FrameMs == ThrottleMs \div 2          \* a time between two frames shorter than the interval (ms)
FrameDeltas == {FrameMs, 2 * FrameMs}
\* Math.random() at the ends of [0, 1): the four draws of one iteration of the
\* spawn loop, and the two draws of a RenderEnemy's direction memo.
SpawnDraws == {<<0, Unit, 0, Unit>>, <<Unit, 0, Unit, 0>>}
DirectionDraws == {<<0, Unit>>}

VARIABLES
  colliderCount,      \* App: leva control "Count"
  spawnScale,         \* App: leva control "Spawn Scale"
  physicsDebug,       \* App: leva control "Physics Debug"
  spawnPending,       \* App: the spawn effect is scheduled (its deps changed)
  enemies,            \* App: useState<Enemy[]>
  initEffectRuns,     \* Physics2D: invocations of the init effect so far
  pendingInits,       \* Physics2D: initializeWorld calls awaiting the import
  worldCurrent,       \* Physics2D: world.current (a world id or NULL)
  worldsConstructed,  \* engine: worlds constructed so far (ids 1, 2, ...)
  rapierInitialized,  \* Physics2D: useState(false)
  context,            \* Physics2D: the memoised context value of the last render
  debugMounted,       \* the Debug component is mounted
  instances,          \* mounted RenderEnemy components by key, with their refs
  bodies,             \* engine: rigid bodies of the context's world by handle
  colliders,          \* engine: colliders of the context's world by handle
  nextBodyHandle,     \* engine: the next rigid-body handle it issues
  nextColliderHandle, \* engine: the next collider handle it issues
  calls,              \* engine calls made by the last handler, in order
  now,                \* Date.now() in ms
  debugRenderOutput,  \* engine: the buffers world.debugRender() returns
  mesh,               \* Debug: the attributes of the line-segment geometry
  scheduler3D,        \* the 3D variant's RenderEnemy components by key
  gravity,            \* Physics2D: the gravity prop of the last render
  timeStep,           \* Physics2D: the timeStep prop of the last render
  initCaptures,       \* the props closed over by the pending initializeWorld calls
  worldGravity,       \* engine: gravity of world.current (NULL without a world)
  worldTimestep,      \* engine: timestep of world.current (NULL without a world)
  physicsMounted,     \* Physics2D is mounted
  unmountedRefs       \* the refs of the unmounted RenderEnemy components, as
                      \* their cleanup left them, by key

vars == <<colliderCount, spawnScale, physicsDebug, spawnPending, enemies,
          initEffectRuns, pendingInits, worldCurrent, worldsConstructed,
          rapierInitialized, context, debugMounted, instances, bodies,
          colliders, nextBodyHandle, nextColliderHandle, calls, now,
          debugRenderOutput, mesh, scheduler3D, gravity, timeStep,
          initCaptures, worldGravity, worldTimestep, physicsMounted,
          unmountedRefs>>

\* ---------------------------------------------------------------- helpers
Range(s) == {s[i] : i \in DOMAIN s}

Min(S) == CHOOSE x \in S : \A y \in S : x <= y

RECURSIVE SortedSeq(_)
SortedSeq(S) == IF S = {} THEN <<>> ELSE <<Min(S)>> \o SortedSeq(S \ {Min(S)})

Restrict(f, D) == [x \in D |-> f[x]]

Call(op, h, arg) == [op |-> op, h |-> h, arg |-> arg]

NoArg == <<0, 0>>

\* JavaScript truthiness of a number | null: null and 0 are falsy.
Truthy(h) == h # NULL /\ h # 0

\* ------------------------------------------------------------ the engine
\* The engine state threaded through one handler: the bodies and colliders of
\* the world, the handle counters, the calls made so far, and the components'
\* refs the handler writes.
EngineState ==
  [bodies |-> bodies, colliders |-> colliders, nextBody |-> nextBodyHandle,
   nextCollider |-> nextColliderHandle, calls |-> <<>>, inst |-> instances,
   mesh |-> mesh, unmounted |-> unmountedRefs]

\* The first handle the engine issues is 0; a handle value is never issued twice.
World_createRigidBody(S, translation) ==
  [S EXCEPT !.bodies = (S.nextBody :> [translation |-> translation,
                                       linvel |-> <<0, 0>>]) @@ S.bodies,
            !.nextBody = S.nextBody + 1,
            !.calls = Append(S.calls, Call("createRigidBody", S.nextBody, translation))]

World_createCollider(S, parent) ==
  [S EXCEPT !.colliders = (S.nextCollider :> [parent |-> parent]) @@ S.colliders,
            !.nextCollider = S.nextCollider + 1,
            !.calls = Append(S.calls, Call("createCollider", S.nextCollider, <<parent, 0>>))]

World_removeCollider(S, h) ==
  [S EXCEPT !.colliders = Restrict(S.colliders, DOMAIN S.colliders \ {h}),
            !.calls = Append(S.calls, Call("removeCollider", h, NoArg))]

\* Removing a body also removes the colliders still attached to it.
World_removeRigidBody(S, h) ==
  [S EXCEPT !.bodies = Restrict(S.bodies, DOMAIN S.bodies \ {h}),
            !.colliders = Restrict(S.colliders,
                             {c \in DOMAIN S.colliders : S.colliders[c].parent # h}),
            !.calls = Append(S.calls, Call("removeRigidBody", h, NoArg))]

RigidBody_setLinvel(S, h, v) ==
  [S EXCEPT !.bodies = IF h \in DOMAIN S.bodies
                       THEN [S.bodies EXCEPT ![h].linvel = v]
                       ELSE S.bodies,
            !.calls = Append(S.calls, Call("setLinvel", h, v))]

World_step(S, w) == [S EXCEPT !.calls = Append(S.calls, Call("step", w, NoArg))]

\* --------------------------------------------------------------- Physics2D
\* The world made from the props of the latest render.
initializeWorld_config_Latest(captured, latest) == latest

\* new RAPIER.World(gravity); newWorld.timestep = timeStep: initializeWorld
\* reads the props its effect closed over, not those of the latest render.
initializeWorld_config(captured, latest) == captured

\* useMemo(() => ({world: world.current, rapierInitialized}), [rapierInitialized]):
\* recomputed only in a render in which rapierInitialized differs from the
\* last render's.
Physics2D_context(prev, wc, ri) ==
  IF prev.rapierInitialized = ri THEN prev
  ELSE [world |-> wc, rapierInitialized |-> ri]

\* {rapierInitialized && (<Provider> ... {children} </Provider>)}
Physics2D_rendersChildren(ri) == ri

\* useRapier2D returns the context, and throws while context.world is null.
useRapier2D_returns(ctx) == ctx.world # NULL

\* if (!rapierInitialized || !world) return;
useRigidBody_mountGuard(ctx) == ctx.rapierInitialized /\ ctx.world # NULL

\* The gate left out: the entities mount whatever the state of the world.
BodyBinding_creates_Ungated(ri, ctx) == TRUE

\* The path from Physics2D's render to createRigidBody: the children are
\* rendered, useRapier2D returns in them, and the mount effect passes its guard.
BodyBinding_creates(ri, ctx) ==
  /\ Physics2D_rendersChildren(ri)
  /\ useRapier2D_returns(ctx)
  /\ useRigidBody_mountGuard(ctx)

\* ------------------------------------------------------------ useRigidBody
\* A RenderEnemy component as rendered the first time: its refs and its memo.
RenderEnemy_render(enemy, direction) ==
  [enemy |-> enemy, rigidBodyHandle |-> NULL, rigidBodyRef |-> NULL,
   colliderHandles |-> <<>>, counterRef |-> 0, direction |-> direction,
   threePosition |-> <<0, 0>>]

\* The mount effect past its guard: one dynamic body at initialPosition, one
\* ball collider on it, and the three refs.
useRigidBody_mountEffect(S, k) ==
  LET rb == S.nextBody
      S1 == World_createRigidBody(S, S.inst[k].enemy.position)
      collider == S1.nextCollider
      S2 == World_createCollider(S1, rb)
  IN [S2 EXCEPT !.inst[k].rigidBodyRef = rb,
                !.inst[k].colliderHandles = <<collider>>,
                !.inst[k].rigidBodyHandle = rb]

RECURSIVE RemoveColliders(_, _)
RemoveColliders(S, hs) ==
  IF hs = <<>> THEN S
  ELSE RemoveColliders(World_removeCollider(S, Head(hs)), Tail(hs))

\* The cleanup with its two steps exchanged: the body, then the colliders.
useRigidBody_cleanup_BodyFirst(S, k, world) ==
  IF world = NULL THEN S
  ELSE LET S1 == IF Truthy(S.inst[k].rigidBodyHandle)
                 THEN World_removeRigidBody(S, S.inst[k].rigidBodyHandle)
                 ELSE S
       IN RemoveColliders(S1, S.inst[k].colliderHandles)

\* The cleanup run a second time over the refs the first run left.
useRigidBody_cleanup_Twice(S, k, world) ==
  IF world = NULL THEN S
  ELSE LET h == S.inst[k].rigidBodyHandle
           S1 == RemoveColliders(S, S.inst[k].colliderHandles)
           S2 == IF Truthy(h) THEN World_removeRigidBody(S1, h) ELSE S1
           S3 == RemoveColliders(S2, S.inst[k].colliderHandles)
       IN IF Truthy(h) THEN World_removeRigidBody(S3, h) ELSE S3

\* The cleanup of the unmount effect: every registered collider, then the
\* body when `rigidBodyHandle.current` is truthy.
useRigidBody_cleanup(S, k, world) ==
  IF world = NULL THEN S
  ELSE LET S1 == RemoveColliders(S, S.inst[k].colliderHandles)
       IN IF Truthy(S.inst[k].rigidBodyHandle)
          THEN World_removeRigidBody(S1, S.inst[k].rigidBodyHandle)
          ELSE S1

\* ------------------------------------------------------- the React commit
\* The three handle refs of a component.
HandleRefs(i) ==
  [rigidBodyHandle |-> i.rigidBodyHandle, rigidBodyRef |-> i.rigidBodyRef,
   colliderHandles |-> i.colliderHandles]

\* The components of the keys ks unmount: the cleanup of each runs, and the
\* component, its frame subscriptions with it, is gone.
RECURSIVE UnmountAll(_, _, _)
UnmountAll(S, ks, world) ==
  IF ks = <<>> THEN S
  ELSE LET k == Head(ks)
           S1 == useRigidBody_cleanup(S, k, world)
       IN UnmountAll([S1 EXCEPT !.inst = Restrict(S1.inst, DOMAIN S1.inst \ {k}),
                                !.unmounted = (k :> HandleRefs(S1.inst[k])) @@ S1.unmounted],
                     Tail(ks), world)

RECURSIVE MountAll(_, _, _, _)
MountAll(S, ks, ens, dirs) ==
  IF ks = <<>> THEN S
  ELSE LET k == Head(ks)
           S1 == [S EXCEPT !.inst = (k :> RenderEnemy_render(ens[k + 1], dirs[k])) @@ S.inst]
       IN MountAll(useRigidBody_mountEffect(S1, k), Tail(ks), ens, dirs)

\* Math.random() scaled as the code scales it.
SpawnPosition(r, scale) == ((0 - Unit) + r * 2) * scale
SpawnVelocity(r) == (0 - Unit) + r * 2
Times001(x) == x \div 100  \* x * 0.01, exact on the multiples of 1.0
EnemyDirection(r) == Times001(Unit - r * 2)

Directions == {<<EnemyDirection(r[1]), EnemyDirection(r[2])>> : r \in DirectionDraws}

EnemyIds(ens) == {ens[i].id : i \in DOMAIN ens}

\* Enemy records of one run of the spawn effect: rnd[i] are the four
\* Math.random() draws of iteration i.
NewEnemies(count, scale, rnd) ==
  [i \in 1..count |->
     [id |-> i - 1,
      position |-> <<SpawnPosition(rnd[i][1], scale), SpawnPosition(rnd[i][2], scale)>>,
      velocity |-> <<SpawnVelocity(rnd[i][3]), SpawnVelocity(rnd[i][4])>>]]

\* ---------------------------------------------------------- frame callbacks
RenderEnemy_framePriority == 0
Physics2D_framePriority == UPDATE_PRIORITY_PHYSICS
Debug_framePriority == UPDATE_PRIORITY_PHYSICS_DEBUGGER
useRigidBody_framePriority_Default == RenderEnemy_framePriority
useRigidBody_framePriority == UPDATE_PRIORITY_RENDER

\* The step made whatever world.current holds.
Physics2D_useFrame_Unguarded(S, wc) == World_step(S, wc)

\* world?.current?.step()
Physics2D_useFrame(S, wc) == IF wc = NULL THEN S ELSE World_step(S, wc)

\* The reshape loop: for (i = 0, j = 0; i < vertices.length; i += 2, j += 3).
RECURSIVE Debug_reshapeLoop(_, _, _)
Debug_reshapeLoop(vertices, i, out) ==
  IF i >= Len(vertices) THEN out
  ELSE Debug_reshapeLoop(vertices, i + 2,
                         out \o <<vertices[i + 1], vertices[i + 2], 0>>)

\* The buffer handed on as it came, as the 3D variant's Debug does.
Debug_vertices3D_PassThrough(vertices) == vertices

Debug_vertices3D(vertices) == Debug_reshapeLoop(vertices, 0, <<>>)

\* Debug's frame callback: the position attribute from the reshaped vertices,
\* the color attribute from buffers.colors.
Debug_useFrame(S, world, buffers) ==
  IF world = NULL THEN S
  ELSE [S EXCEPT !.calls = Append(S.calls, Call("debugRender", world, NoArg)),
                 !.mesh = [position |-> Debug_vertices3D(buffers.vertices),
                           color |-> buffers.colors]]

\* useRigidBody's frame callback: the body's translation into the group.
useRigidBody_useFrame(S, k) ==
  LET rb == S.inst[k].rigidBodyRef
  IN IF rb = NULL THEN S
     ELSE [S EXCEPT !.calls = Append(S.calls, Call("translation", rb, NoArg)),
                    !.inst[k].threePosition =
                       IF rb \in DOMAIN S.bodies THEN S.bodies[rb].translation
                       ELSE S.inst[k].threePosition]

\* RenderEnemy's frame callback: counterRef.current++, the optional setLinvel
\* with direction * counterRef.current, counterRef.current++.
RenderEnemy_useFrame(S, k) ==
  LET i == S.inst[k]
      c == i.counterRef + 1
      v == <<i.direction[1] * c, i.direction[2] * c>>
      S1 == IF i.rigidBodyRef = NULL THEN S
            ELSE RigidBody_setLinvel(S, i.rigidBodyRef, v)
  IN [S1 EXCEPT !.inst[k].counterRef = c + 1]

Subscriber(kind, key, priority) == [kind |-> kind, key |-> key, priority |-> priority]

RECURSIVE EntitySubscribers(_)
EntitySubscribers(ks) ==
  IF ks = <<>> THEN <<>>
  ELSE <<Subscriber("sync", Head(ks), useRigidBody_framePriority),
         Subscriber("velocity", Head(ks), RenderEnemy_framePriority)>>
       \o EntitySubscribers(Tail(ks))

\* The useFrame subscriptions in the order they were made.
FrameSubscribers(insts, dbg) ==
  <<Subscriber("step", NULL, Physics2D_framePriority)>>
  \o (IF dbg THEN <<Subscriber("debug", NULL, Debug_framePriority)>> ELSE <<>>)
  \o EntitySubscribers(SortedSeq(DOMAIN insts))

\* subscribers.sort((a, b) => a.priority - b.priority), a stable sort.
RECURSIVE SortByPriority(_, _)
SortByPriority(subs, levels) ==
  IF levels = {} THEN <<>>
  ELSE LET p == Min(levels)
       IN SelectSeq(subs, LAMBDA s : s.priority = p)
          \o SortByPriority(subs, levels \ {p})

RunSubscriber(S, sub, wc, ctxWorld, buffers) ==
  CASE sub.kind = "step" -> Physics2D_useFrame(S, wc)
    [] sub.kind = "debug" -> Debug_useFrame(S, ctxWorld, buffers)
    [] sub.kind = "sync" -> useRigidBody_useFrame(S, sub.key)
    [] sub.kind = "velocity" -> RenderEnemy_useFrame(S, sub.key)

RECURSIVE RunFrame(_, _, _, _, _)
RunFrame(S, subs, wc, ctxWorld, buffers) ==
  IF subs = <<>> THEN S
  ELSE RunFrame(RunSubscriber(S, Head(subs), wc, ctxWorld, buffers),
                Tail(subs), wc, ctxWorld, buffers)

\* ------------------------------------------------------------------- state
\* The state after the first render of App: no enemies yet, the effects of
\* the mount still to run.
InitApp ==
  /\ colliderCount = DefaultCount
  /\ spawnScale = DefaultScale
  /\ physicsDebug = TRUE
  /\ spawnPending = TRUE
  /\ enemies = <<>>
  /\ initEffectRuns = 0
  /\ pendingInits = 0
  /\ worldCurrent = NULL
  /\ worldsConstructed = 0
  /\ rapierInitialized = FALSE
  /\ context = [world |-> NULL, rapierInitialized |-> FALSE]
  /\ debugMounted = FALSE
  /\ instances = <<>>
  /\ bodies = <<>>
  /\ colliders = <<>>
  /\ nextBodyHandle = 0
  /\ nextColliderHandle = 0
  /\ calls = <<>>
  /\ now = 0
  /\ debugRenderOutput = [vertices |-> <<1, 2>>, colors |-> <<1, 1, 1, 1>>]
  /\ mesh = [position |-> <<>>, color |-> <<>>]
  /\ gravity = DefaultGravity
  /\ timeStep = DefaultTimeStep
  /\ initCaptures = <<>>
  /\ worldGravity = NULL
  /\ worldTimestep = NULL
  /\ physicsMounted = TRUE
  /\ unmountedRefs = <<>>

Init == InitApp /\ scheduler3D = <<>>

\* ----------------------------------------------------------------- actions
\* An init effect that starts over: the world dropped and the flag lowered
\* before initializeWorld() is called.
Physics2D_initEffect_Reset ==
  /\ pendingInits' = pendingInits + 1
  /\ initEffectRuns' = initEffectRuns + 1
  /\ initCaptures' = Append(initCaptures, [gravity |-> gravity, timeStep |-> timeStep])
  /\ worldCurrent' = NULL
  /\ rapierInitialized' = FALSE
  /\ calls' = <<>>
  /\ UNCHANGED <<gravity, timeStep, worldGravity, worldTimestep, physicsMounted,
                 unmountedRefs>>
  /\ UNCHANGED <<colliderCount, spawnScale, physicsDebug, spawnPending, enemies,
                 worldsConstructed, context,
                 debugMounted, instances, bodies, colliders, nextBodyHandle,
                 nextColliderHandle, now, debugRenderOutput, mesh, scheduler3D>>

\* Physics2D's init effect runs: initializeWorld() runs up to its await.
Physics2D_initEffect ==
  /\ pendingInits' = pendingInits + 1
  /\ initEffectRuns' = initEffectRuns + 1
  /\ initCaptures' = Append(initCaptures, [gravity |-> gravity, timeStep |-> timeStep])
  /\ calls' = <<>>
  /\ UNCHANGED <<gravity, timeStep, worldGravity, worldTimestep, physicsMounted,
                 unmountedRefs>>
  /\ UNCHANGED <<colliderCount, spawnScale, physicsDebug, spawnPending, enemies,
                 worldCurrent, worldsConstructed, rapierInitialized, context,
                 debugMounted, instances, bodies, colliders, nextBodyHandle,
                 nextColliderHandle, now, debugRenderOutput, mesh, scheduler3D>>

\* React runs the effect (deps []) once after Physics2D has mounted.
InitEffect ==
  /\ initEffectRuns = 0
  /\ Physics2D_initEffect

\* The host runs the effect again on the mounted component, as React's
\* StrictMode and Fast Refresh do.
InitEffectAgain ==
  /\ initEffectRuns >= 1
  /\ initEffectRuns < MaxInitEffectRuns
  /\ Physics2D_initEffect

\* The import of one initializeWorld() call resolves: a new world is
\* constructed, stored in world.current, and rapierInitialized is set (a
\* state update of an unmounted component does nothing).
InitComplete ==
  /\ pendingInits > 0
  /\ pendingInits' = pendingInits - 1
  /\ worldsConstructed' = worldsConstructed + 1
  /\ worldCurrent' = worldsConstructed + 1
  /\ rapierInitialized' = IF physicsMounted THEN TRUE ELSE rapierInitialized
  /\ initCaptures' = Tail(initCaptures)
  /\ worldGravity' = initializeWorld_config(Head(initCaptures).gravity, gravity)
  /\ worldTimestep' = initializeWorld_config(Head(initCaptures).timeStep, timeStep)
  /\ calls' = <<Call("World", worldsConstructed + 1, NoArg)>>
  /\ UNCHANGED <<gravity, timeStep, physicsMounted, unmountedRefs>>
  /\ UNCHANGED <<colliderCount, spawnScale, physicsDebug, spawnPending, enemies,
                 initEffectRuns, context, debugMounted, instances, bodies,
                 colliders, nextBodyHandle, nextColliderHandle, now,
                 debugRenderOutput, mesh, scheduler3D>>

\* App's spawn effect; it runs after the effects of App's children.
SpawnEffect ==
  /\ spawnPending
  /\ initEffectRuns >= 1
  /\ \E rnd \in [1..colliderCount -> SpawnDraws] :
        enemies' = NewEnemies(colliderCount, spawnScale, rnd)
  /\ spawnPending' = FALSE
  /\ calls' = <<>>
  /\ UNCHANGED <<gravity, timeStep, initCaptures, worldGravity, worldTimestep,
                 physicsMounted, unmountedRefs>>
  /\ UNCHANGED <<colliderCount, spawnScale, physicsDebug, initEffectRuns,
                 pendingInits, worldCurrent, worldsConstructed, rapierInitialized,
                 context, debugMounted, instances, bodies, colliders,
                 nextBodyHandle, nextColliderHandle, now, debugRenderOutput, mesh, scheduler3D>>

\* What the next render of the tree gives.
RenderedContext == Physics2D_context(context, worldCurrent, rapierInitialized)

RenderedKeys ==
  IF BodyBinding_creates(rapierInitialized, RenderedContext)
  THEN EnemyIds(enemies) ELSE {}

RenderedDebug ==
  /\ physicsDebug
  /\ Physics2D_rendersChildren(rapierInitialized)
  /\ useRapier2D_returns(RenderedContext)

RenderNeeded ==
  \/ RenderedContext # context
  \/ RenderedKeys # DOMAIN instances
  \/ RenderedDebug # debugMounted
  \/ \E k \in DOMAIN instances \cap RenderedKeys : instances[k].enemy # enemies[k + 1]

\* The user moves the Count or the Spawn Scale control, React having flushed
\* the effects and renders of the earlier events: the spawn effect's
\* dependencies change.
ChangeControls(count, scale) ==
  /\ ~spawnPending
  /\ ~RenderNeeded
  /\ <<count, scale>> # <<colliderCount, spawnScale>>
  /\ colliderCount' = count
  /\ spawnScale' = scale
  /\ spawnPending' = TRUE
  /\ calls' = <<>>
  /\ UNCHANGED <<gravity, timeStep, initCaptures, worldGravity, worldTimestep,
                 physicsMounted, unmountedRefs>>
  /\ UNCHANGED <<physicsDebug, enemies, initEffectRuns, pendingInits, worldCurrent,
                 worldsConstructed, rapierInitialized, context, debugMounted,
                 instances, bodies, colliders, nextBodyHandle, nextColliderHandle,
                 now, debugRenderOutput, mesh, scheduler3D>>

\* React renders and commits the tree: the children are reconciled by key,
\* the cleanups of the removed ones run, then the mount effects of the new ones.
Render ==
  /\ RenderNeeded
  /\ LET removed == DOMAIN instances \ RenderedKeys
         added == RenderedKeys \ DOMAIN instances
         S0 == UnmountAll(EngineState, SortedSeq(removed), context.world)
         S1 == [S0 EXCEPT !.inst = [k \in DOMAIN S0.inst |->
                                       [S0.inst[k] EXCEPT !.enemy = enemies[k + 1]]]]
     IN /\ nextBodyHandle + Cardinality(added) <= MaxHandles
        /\ \E dirs \in [added -> Directions] :
              LET S2 == MountAll(S1, SortedSeq(added), enemies, dirs)
              IN /\ instances' = S2.inst
                 /\ bodies' = S2.bodies
                 /\ colliders' = S2.colliders
                 /\ nextBodyHandle' = S2.nextBody
                 /\ nextColliderHandle' = S2.nextCollider
                 /\ calls' = S2.calls
                 /\ unmountedRefs' = S2.unmounted
  /\ context' = RenderedContext
  /\ debugMounted' = RenderedDebug
  /\ UNCHANGED <<gravity, timeStep, initCaptures, worldGravity, worldTimestep,
                 physicsMounted>>
  /\ UNCHANGED <<colliderCount, spawnScale, physicsDebug, spawnPending, enemies,
                 initEffectRuns, pendingInits, worldCurrent, worldsConstructed,
                 rapierInitialized, now, debugRenderOutput, mesh, scheduler3D>>

\* One frame of the host loop, dt ms after the last: every useFrame
\* subscriber, by ascending priority.
Tick(dt) ==
  /\ now + dt <= MaxFrames * FrameMs
  /\ now' = now + dt
  /\ LET subs == FrameSubscribers(instances, debugMounted)
         order == SortByPriority(subs, {subs[i].priority : i \in DOMAIN subs})
         S == RunFrame(EngineState, order, worldCurrent, context.world,
                       debugRenderOutput)
     IN /\ instances' = S.inst
        /\ bodies' = S.bodies
        /\ calls' = S.calls
        /\ mesh' = S.mesh
  /\ UNCHANGED <<gravity, timeStep, initCaptures, worldGravity, worldTimestep,
                 physicsMounted, unmountedRefs>>
  /\ UNCHANGED <<colliderCount, spawnScale, physicsDebug, spawnPending, enemies,
                 initEffectRuns, pendingInits, worldCurrent, worldsConstructed,
                 rapierInitialized, context, debugMounted, colliders,
                 nextBodyHandle, nextColliderHandle, debugRenderOutput, scheduler3D>>

Next ==
  \/ InitEffect
  \/ InitComplete
  \/ \E count \in Counts, scale \in Scales : ChangeControls(count, scale)
  \/ SpawnEffect
  \/ Render
  \/ \E dt \in FrameDeltas : Tick(dt)

Spec == Init /\ [][Next]_vars

\* The reshape harness: a ready world with the default population mounted,
\* whose debugRender() returns any buffers of up to MaxVertices vertices, two
\* scalars a vertex and one of two RGBA colors a vertex.
VertexScalars == {0 - Unit, 0, Unit}
VertexColors == {<<Unit, 0, 0, Unit>>, <<0, Unit, 0, Unit>>}

RECURSIVE Flatten(_)
Flatten(ss) == IF ss = <<>> THEN <<>> ELSE Head(ss) \o Flatten(Tail(ss))

DebugOutputs ==
  UNION {{[vertices |-> v, colors |-> Flatten(c)] :
            v \in [1..(2 * n) -> VertexScalars], c \in [1..n -> VertexColors]} :
         n \in 0..MaxVertices}

InitDebug ==
  /\ colliderCount = DefaultCount
  /\ spawnScale = DefaultScale
  /\ physicsDebug = TRUE
  /\ spawnPending = FALSE
  /\ \E rnd \in [1..DefaultCount -> SpawnDraws], dirs \in [0..(DefaultCount - 1) -> Directions] :
        LET ens == NewEnemies(DefaultCount, DefaultScale, rnd)
            S0 == [bodies |-> <<>>, colliders |-> <<>>, nextBody |-> 0,
                   nextCollider |-> 0, calls |-> <<>>, inst |-> <<>>,
                   mesh |-> [position |-> <<>>, color |-> <<>>],
                   unmounted |-> <<>>]
            S == MountAll(S0, SortedSeq(EnemyIds(ens)), ens, dirs)
        IN /\ enemies = ens
           /\ instances = S.inst
           /\ bodies = S.bodies
           /\ colliders = S.colliders
           /\ nextBodyHandle = S.nextBody
           /\ nextColliderHandle = S.nextCollider
           /\ calls = S.calls
  /\ initEffectRuns = 1
  /\ pendingInits = 0
  /\ worldCurrent = 1
  /\ worldsConstructed = 1
  /\ rapierInitialized = TRUE
  /\ context = [world |-> 1, rapierInitialized |-> TRUE]
  /\ debugMounted = TRUE
  /\ now = 0
  /\ debugRenderOutput \in DebugOutputs
  /\ mesh = [position |-> <<>>, color |-> <<>>]
  /\ scheduler3D = <<>>
  /\ gravity = DefaultGravity
  /\ timeStep = DefaultTimeStep
  /\ initCaptures = <<>>
  /\ worldGravity = DefaultGravity
  /\ worldTimestep = DefaultTimeStep
  /\ physicsMounted = TRUE
  /\ unmountedRefs = <<>>

NextDebug == \E dt \in FrameDeltas : Tick(dt)

SpecDebug == InitDebug /\ [][NextDebug]_vars

\* ------------------------------------------------ the 3D variant's scheduler
\* RenderEnemy of the 3D variant as rendered the first time, at time t: the
\* record with its velocity scaled by 0.01, the counter, the time stamp.
RenderEnemy3D_render(enemy, t) ==
  [enemyRef |-> [enemy EXCEPT !.velocity = <<Times001(enemy.velocity[1]), 0,
                                           Times001(enemy.velocity[3])>>],
   counterRef |-> 0, velocityLastUpdated |-> t]

\* Its frame callback at time t.
RenderEnemy3D_useFrame(S, k, t) ==
  LET r == S.sched[k]
      c == r.counterRef + 1
  IN IF t - r.velocityLastUpdated < ThrottleMs THEN S
     ELSE [S EXCEPT !.sched[k].velocityLastUpdated = t,
                    !.sched[k].counterRef = c,
                    !.calls = Append(S.calls,
                                Call("setLinvel", k,
                                     <<r.enemyRef.velocity[1] * c, 0,
                                       r.enemyRef.velocity[3] * c>>))]

RECURSIVE RunFrame3D(_, _, _)
RunFrame3D(S, ks, t) ==
  IF ks = <<>> THEN S
  ELSE RunFrame3D(RenderEnemy3D_useFrame(S, Head(ks), t), Tail(ks), t)

\* The 3D variant's spawn effect: y is fixed at 0.
NewEnemies3D(count, scale, rnd) ==
  [i \in 1..count |->
     [id |-> i - 1,
      position |-> <<SpawnPosition(rnd[i][1], scale), 0, SpawnPosition(rnd[i][2], scale)>>,
      velocity |-> <<SpawnVelocity(rnd[i][3]), 0, SpawnVelocity(rnd[i][4])>>]]

\* The scheduler harness: the enemies of one spawn mounted at time 0, their
\* bodies in place, and the frame loop running.
Init3D ==
  /\ InitApp
  /\ \E n \in 1..MaxCount : \E rnd \in [1..n -> SpawnDraws] :
        LET ens == NewEnemies3D(n, DefaultScale, rnd)
        IN scheduler3D = [k \in 0..(n - 1) |-> RenderEnemy3D_render(ens[k + 1], 0)]

Frame3D(dt) ==
  /\ now + dt <= MaxFrames3D * FrameMs
  /\ now' = now + dt
  /\ LET S == RunFrame3D([sched |-> scheduler3D, calls |-> <<>>],
                         SortedSeq(DOMAIN scheduler3D), now + dt)
     IN /\ scheduler3D' = S.sched
        /\ calls' = S.calls
  /\ UNCHANGED <<gravity, timeStep, initCaptures, worldGravity, worldTimestep,
                 physicsMounted, unmountedRefs>>
  /\ UNCHANGED <<colliderCount, spawnScale, physicsDebug, spawnPending, enemies,
                 initEffectRuns, pendingInits, worldCurrent, worldsConstructed,
                 rapierInitialized, context, debugMounted, instances, bodies,
                 colliders, nextBodyHandle, nextColliderHandle,
                 debugRenderOutput, mesh>>

Next3D == \E dt \in FrameDeltas : Frame3D(dt)

Spec3D == Init3D /\ [][Next3D]_vars

\* ------------------------------------------------- gravity and timeStep
\* The parent renders Physics2D with another gravity and the gravity effect
\* runs: if (!world.current) return; world.current.gravity = gravity.
Physics2D_gravityEffect(g) ==
  /\ physicsMounted
  /\ ~RenderNeeded
  /\ g # gravity
  /\ gravity' = g
  /\ IF worldCurrent = NULL
     THEN /\ worldGravity' = worldGravity
          /\ calls' = <<>>
     ELSE /\ worldGravity' = g
          /\ calls' = <<Call("gravity", worldCurrent, g)>>
  /\ UNCHANGED <<timeStep, initCaptures, worldTimestep, physicsMounted, unmountedRefs>>
  /\ UNCHANGED <<colliderCount, spawnScale, physicsDebug, spawnPending, enemies,
                 initEffectRuns, pendingInits, worldCurrent, worldsConstructed,
                 rapierInitialized, context, debugMounted, instances, bodies,
                 colliders, nextBodyHandle, nextColliderHandle, now,
                 debugRenderOutput, mesh, scheduler3D>>

\* The same for timeStep: if (!world.current) return; world.current.timestep = timeStep.
Physics2D_timeStepEffect(t) ==
  /\ physicsMounted
  /\ ~RenderNeeded
  /\ t # timeStep
  /\ timeStep' = t
  /\ IF worldCurrent = NULL
     THEN /\ worldTimestep' = worldTimestep
          /\ calls' = <<>>
     ELSE /\ worldTimestep' = t
          /\ calls' = <<Call("timestep", worldCurrent, <<t, 0>>)>>
  /\ UNCHANGED <<gravity, initCaptures, worldGravity, physicsMounted, unmountedRefs>>
  /\ UNCHANGED <<colliderCount, spawnScale, physicsDebug, spawnPending, enemies,
                 initEffectRuns, pendingInits, worldCurrent, worldsConstructed,
                 rapierInitialized, context, debugMounted, instances, bodies,
                 colliders, nextBodyHandle, nextColliderHandle, now,
                 debugRenderOutput, mesh, scheduler3D>>

\* The default population under a parent that changes Physics2D's gravity and
\* timeStep.
NextConfig ==
  \/ InitEffect
  \/ InitComplete
  \/ SpawnEffect
  \/ Render
  \/ \E dt \in FrameDeltas : Tick(dt)
  \/ \E g \in Gravities : Physics2D_gravityEffect(g)
  \/ \E t \in TimeSteps : Physics2D_timeStepEffect(t)

SpecConfig == Init /\ [][NextConfig]_vars

\* ----------------------------------------------------------------- teardown
\* No handler of Physics2D or of its children calls World.free(): every
\* world constructed stays alive.
WorldsAlive == worldsConstructed

\* The tree unmounts: the cleanups of the RenderEnemy children run against
\* the context's world, the frame subscriptions go, and Physics2D, which has
\* no cleanup of its own, leaves world.current and the pending
\* initializeWorld() calls as they are.
Physics2D_unmount ==
  /\ physicsMounted
  /\ physicsMounted' = FALSE
  /\ LET S == UnmountAll(EngineState, SortedSeq(DOMAIN instances), context.world)
     IN /\ instances' = S.inst
        /\ bodies' = S.bodies
        /\ colliders' = S.colliders
        /\ calls' = S.calls
        /\ unmountedRefs' = S.unmounted
  /\ debugMounted' = FALSE
  /\ UNCHANGED <<gravity, timeStep, initCaptures, worldGravity, worldTimestep>>
  /\ UNCHANGED <<colliderCount, spawnScale, physicsDebug, spawnPending, enemies,
                 initEffectRuns, pendingInits, worldCurrent, worldsConstructed,
                 rapierInitialized, context, nextBodyHandle, nextColliderHandle,
                 now, debugRenderOutput, mesh, scheduler3D>>

\* The program until its tree unmounts, and the pending imports after that.
NextTeardown ==
  \/ physicsMounted /\ Next
  \/ Physics2D_unmount
  \/ ~physicsMounted /\ InitComplete

SpecTeardown == Init /\ [][NextTeardown]_vars

\* The same program under a host that re-runs the init effect.
NextStrict == Next \/ InitEffectAgain

SpecStrict == Init /\ [][NextStrict]_vars

\* The default population under a host that re-runs the init effect.
NextLifecycle ==
  \/ InitEffect
  \/ InitEffectAgain
  \/ InitComplete
  \/ SpawnEffect
  \/ Render
  \/ \E dt \in FrameDeltas : Tick(dt)

SpecLifecycle == Init /\ [][NextLifecycle]_vars

\* ------------------------------------------------------------- properties
\* uninitialized -> initializing -> ready, as the readiness flag and the
\* pending initializeWorld() calls show it.
WorldLifecycle ==
  IF rapierInitialized THEN "ready"
  ELSE IF pendingInits > 0 THEN "initializing" ELSE "uninitialized"

CallsOf(cs, op) == {i \in DOMAIN cs : cs[i].op = op}

Issued(cs, op, h) == \E i \in DOMAIN cs : cs[i].op = op /\ cs[i].h = h

\* The three readiness conditions on the way to createRigidBody agree in
\* every render.
GatesAgree ==
  Physics2D_rendersChildren(rapierInitialized)
    => /\ useRapier2D_returns(RenderedContext)
       /\ useRigidBody_mountGuard(RenderedContext)

\* C1: on a ready world, once every entity has been unmounted the world holds
\* no body and no collider.
C1_HandleBalance ==
  (context.rapierInitialized /\ DOMAIN instances = {})
    => (DOMAIN bodies = {} /\ DOMAIN colliders = {})

\* C2: whenever a handler issues removeRigidBody for an entity's body, it has
\* already issued removeCollider for each collider the entity registered.
C2_RemovalOrder ==
  [][\A k \in DOMAIN instances : \A i \in DOMAIN calls' :
        (calls'[i].op = "removeRigidBody" /\ calls'[i].h = instances[k].rigidBodyHandle)
          => \A c \in Range(instances[k].colliderHandles) :
                \E j \in 1..(i - 1) :
                   calls'[j].op = "removeCollider" /\ calls'[j].h = c]_vars

\* An unmount has issued removeRigidBody.
C2_Witness == CallsOf(calls, "removeRigidBody") # {}

\* C3: a handler that starts while the world is not ready makes no
\* createRigidBody and no createCollider call, and a world that is not ready
\* holds no body and no collider.
C3_ReadinessGating ==
  [][WorldLifecycle # "ready"
       => /\ CallsOf(calls', "createRigidBody") = {}
          /\ CallsOf(calls', "createCollider") = {}
          /\ DOMAIN bodies' = {}
          /\ DOMAIN colliders' = {}]_vars

\* The world is still initializing, the enemy records exist, and no
\* RenderEnemy has mounted for them.
C3_Witness ==
  /\ WorldLifecycle = "initializing"
  /\ ~spawnPending
  /\ enemies # <<>>
  /\ DOMAIN instances = {}

\* C4: when the record of an entity id is replaced, the commit gives the id a
\* freshly created body at the new record's position and a velocity counter
\* that starts again from 0.
C4_PopulationReplaced ==
  [][\A k \in DOMAIN instances \cap DOMAIN instances' :
        instances'[k].enemy # instances[k].enemy
          => /\ instances'[k].rigidBodyHandle # instances[k].rigidBodyHandle
             /\ instances'[k].counterRef = 0
             /\ \E i \in DOMAIN calls' :
                   calls'[i] = Call("createRigidBody", instances'[k].rigidBodyHandle,
                                    instances'[k].enemy.position)]_vars

\* C5: once a change of the controls has been applied on a ready world, the
\* world holds exactly colliderCount bodies and colliderCount colliders, and
\* every live entity owns one body and one collider of them.
C5_PopulationSize ==
  (context.rapierInitialized /\ ~spawnPending /\ ~RenderNeeded)
    => /\ Cardinality(DOMAIN bodies) = colliderCount
       /\ Cardinality(DOMAIN colliders) = colliderCount
       /\ Cardinality(DOMAIN instances) = colliderCount
       /\ \A k \in DOMAIN instances :
             /\ instances[k].rigidBodyHandle \in DOMAIN bodies
             /\ Len(instances[k].colliderHandles) = 1
             /\ instances[k].colliderHandles[1] \in DOMAIN colliders

\* C6: a frame that comes less than the throttle interval after the frame
\* that issued an entity's last velocity command issues no setLinvel for the
\* entity and leaves its velocity counter alone.
C6_Throttle ==
  [][\A k \in DOMAIN instances \cap DOMAIN instances' :
        (/\ Issued(calls, "setLinvel", instances[k].rigidBodyRef)
         /\ now' > now
         /\ now' - now < ThrottleMs)
          => /\ ~Issued(calls', "setLinvel", instances[k].rigidBodyRef)
             /\ instances'[k].counterRef = instances[k].counterRef]_vars

\* C7: every velocity command advances the entity's counter by exactly one
\* and sets the record's velocity direction times 0.01 times the new counter,
\* so the k-th command carries the factor k.
C7_VelocityMagnitude ==
  [][\A k \in DOMAIN instances \cap DOMAIN instances' : \A i \in DOMAIN calls' :
        (calls'[i].op = "setLinvel" /\ calls'[i].h = instances[k].rigidBodyRef)
          => /\ instances'[k].counterRef = instances[k].counterRef + 1
             /\ calls'[i].arg =
                  <<Times001(instances[k].enemy.velocity[1]) * instances'[k].counterRef,
                    Times001(instances[k].enemy.velocity[2]) * instances'[k].counterRef>>]_vars

\* The 3D variant's scheduler does what C6 and C7 say: a frame less than the
\* interval after the last command (or the mount) issues nothing and leaves
\* the counter, and a command advances the counter by one and carries the
\* scaled record velocity times the counter.
Throttle3D ==
  [][\A k \in DOMAIN scheduler3D :
        (now' > now /\ now' - scheduler3D[k].velocityLastUpdated < ThrottleMs)
          => /\ ~Issued(calls', "setLinvel", k)
             /\ scheduler3D'[k] = scheduler3D[k]]_vars

Magnitude3D ==
  [][\A k \in DOMAIN scheduler3D : \A i \in DOMAIN calls' :
        (calls'[i].op = "setLinvel" /\ calls'[i].h = k)
          => /\ scheduler3D'[k].counterRef = scheduler3D[k].counterRef + 1
             /\ calls'[i].arg =
                  <<scheduler3D[k].enemyRef.velocity[1] * scheduler3D'[k].counterRef, 0,
                    scheduler3D[k].enemyRef.velocity[3] * scheduler3D'[k].counterRef>>]_vars

\* C8: after a debug refresh, the position attribute has three scalars for
\* every two of the world's vertex buffer (x, y, 0 for the i-th vertex), and
\* the color attribute is the world's color buffer.
C8_Reshape ==
  CallsOf(calls, "debugRender") # {}
    => LET v == debugRenderOutput.vertices
           n == Len(v) \div 2
       IN /\ Len(mesh.position) = 3 * n
          /\ 2 * Len(mesh.position) = 3 * Len(v)
          /\ \A i \in 0..(n - 1) :
                /\ mesh.position[3 * i + 1] = v[2 * i + 1]
                /\ mesh.position[3 * i + 2] = v[2 * i + 2]
                /\ mesh.position[3 * i + 3] = 0
          /\ mesh.color = debugRenderOutput.colors

\* A debug refresh of a buffer of two vertices with non-zero coordinates.
C8_Witness ==
  /\ CallsOf(calls, "debugRender") # {}
  /\ Len(debugRenderOutput.vertices) = 4
  /\ \A i \in 1..4 : debugRenderOutput.vertices[i] # 0
  /\ Len(mesh.position) = 6

TickPhase(op) ==
  CASE op = "setLinvel" -> 1
    [] op = "step" -> 2
    [] op = "translation" -> 3
    [] op = "debugRender" -> 4
    [] OTHER -> 0

C10_SingleWorld == worldsConstructed <= 1

\* C11: a frame that comes while the world is uninitialized or initializing
\* makes no engine call, no step in particular, and changes nothing of the
\* world, the entities, the context or the debug mesh.
C11_StepNoOp ==
  [][(now' > now /\ WorldLifecycle # "ready")
       => /\ CallsOf(calls', "step") = {}
          /\ calls' = <<>>
          /\ UNCHANGED <<worldCurrent, worldsConstructed, rapierInitialized,
                         context, instances, bodies, colliders, mesh>>]_vars

\* A frame has run while the import was still pending.
C11_Witness == now > 0 /\ WorldLifecycle = "initializing"

LifecycleRank(state) ==
  CASE state = "uninitialized" -> 0
    [] state = "initializing" -> 1
    [] state = "ready" -> 2

\* C13: no step takes the lifecycle back (uninitialized, initializing, ready
\* in this order), lowers the readiness flag once it is true, or resets
\* world.current to null once it holds a world.
C13_ForwardOnly ==
  [][/\ LifecycleRank(WorldLifecycle') >= LifecycleRank(WorldLifecycle)
     /\ rapierInitialized => rapierInitialized'
     /\ (worldCurrent # NULL) => (worldCurrent' # NULL)]_vars

\* The world is ready and another initializeWorld() call is in flight.
C13_Witness == rapierInitialized /\ worldCurrent # NULL /\ pendingInits > 0

\* C14: every engine call on a body handle (translation, setLinvel,
\* removeRigidBody) is made on a body the world holds and not after the
\* handle's removal in the same handler, and every removeCollider is made on a
\* collider the world holds and not after its own or its body's removal.
\* The engine issues no handle twice, so a handle the world does not hold is
\* a removed one.
C14_NoUseAfterRemoval ==
  [][\A i \in DOMAIN calls' :
        /\ calls'[i].op \in {"translation", "setLinvel", "removeRigidBody"}
             => /\ calls'[i].h \in DOMAIN bodies
                /\ ~\E j \in 1..(i - 1) :
                      calls'[j] = Call("removeRigidBody", calls'[i].h, NoArg)
        /\ calls'[i].op = "removeCollider"
             => /\ calls'[i].h \in DOMAIN colliders
                /\ ~\E j \in 1..(i - 1) :
                      \/ calls'[j] = Call("removeCollider", calls'[i].h, NoArg)
                      \/ calls'[j] = Call("removeRigidBody",
                                          colliders[calls'[i].h].parent, NoArg)]_vars

\* A frame has issued a velocity command and a read-back for a mounted entity
\* after the cleanup of an earlier one removed what it had registered.
C14_Witness ==
  /\ nextColliderHandle > Cardinality(DOMAIN colliders)
  /\ DOMAIN unmountedRefs # {}
  /\ CallsOf(calls, "setLinvel") # {}
  /\ CallsOf(calls, "translation") # {}

\* C15: the refs of a component whose cleanup has removed its colliders and
\* its body hold no handle: the collider list is empty, the body handle and
\* the body reference are null.
C15_HandlesCleared ==
  \A k \in DOMAIN unmountedRefs :
     (unmountedRefs[k].rigidBodyHandle \notin DOMAIN bodies)
       => /\ unmountedRefs[k].colliderHandles = <<>>
          /\ unmountedRefs[k].rigidBodyHandle = NULL
          /\ unmountedRefs[k].rigidBodyRef = NULL

\* C16: the records that exist when the world becomes ready are mounted
\* before the first step of the world: a frame that directly follows the
\* world's construction with such records makes no step; and a handler that
\* starts while the world is not ready makes no call on a body or a collider.
C16_DeferredMounts ==
  [][/\ (CallsOf(calls, "World") # {} /\ enemies # <<>> /\ now' > now)
          => CallsOf(calls', "step") = {}
     /\ (WorldLifecycle # "ready")
          => \A i \in DOMAIN calls' :
                calls'[i].op \notin {"createRigidBody", "createCollider", "setLinvel",
                                     "translation", "removeCollider", "removeRigidBody"}]_vars

\* C17: once Physics2D has unmounted, whether before or after the import
\* resolved, no world is alive (none constructed earlier is left, none is
\* constructed afterwards) and no body and no collider is left.
C17_WorldReleased ==
  ~physicsMounted
    => /\ WorldsAlive = 0
       /\ DOMAIN bodies = {}
       /\ DOMAIN colliders = {}

\* C18: whenever the context exposes rapierInitialized = true, its world is
\* not null and is the world in world.current, the one the frame callback
\* steps.
C18_SingleWorldConsistency ==
  context.rapierInitialized
    => /\ context.world # NULL
       /\ context.world = worldCurrent

====
